---- MODULE Spec2Model ----
(***************************************************************************)
(* A model of app.py, the pension report extractor: the number cleaner     *)
(* clean_num, the table E shift fix fix_table_e_shifts, the DataFrame      *)
(* builders and the cross-validation of table B against table E, the line  *)
(* grouping of extract_table_d_by_coordinates, and extract_section.        *)
(*                                                                         *)
(* Text is a sequence of one-character strings.  A Python value is a       *)
(* tagged record: None, Str(s) or Float(m, e), the float m * 10^(-e) kept  *)
(* as an exact decimal (m has no trailing zero unless e = 0).              *)
(***************************************************************************)
EXTENDS Integers, Sequences, FiniteSets, TLC

VARIABLES
    pc,               \* position in the operation under way
    value, num,       \* clean_num: its argument and what it returned
    rows, fixed,      \* fix_table_e_shifts: its argument and what it returned
    extracted,        \* the dict call_openai returned: table_a .. table_e
    coord_rows_d,     \* what extract_table_d_by_coordinates returned
    dfs,              \* the DataFrames built from extracted
    outcome,          \* what cross_validate displayed
    words, lines,     \* line grouping: the section's words, the lines dict
    raw_text, section_keyword, section   \* extract_section: arguments, result

vars == <<pc, value, num, rows, fixed, extracted, coord_rows_d, dfs, outcome,
          words, lines, raw_text, section_keyword, section>>

Idle == [k |-> "idle"]

(***************************************************************************)
(* Python values                                                           *)
(***************************************************************************)
None == [k |-> "none"]
NaN == [k |-> "nan"]      \* pandas' missing number
Str(s) == [k |-> "str", s |-> s]

RECURSIVE Norm(_, _)
\* the float m * 10^(-e): trailing zeros of the fraction dropped, -0.0 = 0.0
Norm(m, e) ==
    IF m = 0 THEN [k |-> "float", m |-> 0, e |-> 0]
    ELSE IF e > 0 /\ m % 10 = 0 THEN Norm(m \div 10, e - 1)
    ELSE [k |-> "float", m |-> m, e |-> e]

Float(m, e) == Norm(m, e)

RECURSIVE Pow10(_)
Pow10(n) == IF n = 0 THEN 1 ELSE 10 * Pow10(n - 1)

Abs(n) == IF n < 0 THEN -n ELSE n

\* float arithmetic, exact on the decimals of the model
FNeg(a) == Float(-a.m, a.e)
FAbs(a) == Float(Abs(a.m), a.e)
FAdd(a, b) ==
    IF a.e >= b.e THEN Float(a.m + b.m * Pow10(a.e - b.e), a.e)
    ELSE Float(a.m * Pow10(b.e - a.e) + b.m, b.e)
FSub(a, b) == FAdd(a, FNeg(b))
FLe(a, b) == a.m * Pow10(b.e) <= b.m * Pow10(a.e)
FLt(a, b) == a.m * Pow10(b.e) < b.m * Pow10(a.e)
\* a * 0.01
FHundredth(a) == Float(a.m, a.e + 2)

(***************************************************************************)
(* Characters and strings                                                  *)
(***************************************************************************)
EnDash == "en-dash"       \* the character U+2013
Digits == {"0", "1", "2", "3", "4", "5", "6", "7", "8", "9"}

DigitVal(c) ==
    CASE c = "0" -> 0 [] c = "1" -> 1 [] c = "2" -> 2 [] c = "3" -> 3
      [] c = "4" -> 4 [] c = "5" -> 5 [] c = "6" -> 6 [] c = "7" -> 7
      [] c = "8" -> 8 [] c = "9" -> 9

DigitChar(d) ==
    CASE d = 0 -> "0" [] d = 1 -> "1" [] d = 2 -> "2" [] d = 3 -> "3"
      [] d = 4 -> "4" [] d = 5 -> "5" [] d = 6 -> "6" [] d = 7 -> "7"
      [] d = 8 -> "8" [] d = 9 -> "9"

RECURSIVE LStrip(_)
LStrip(s) == IF s # <<>> /\ Head(s) = " " THEN LStrip(Tail(s)) ELSE s

RECURSIVE RStrip(_)
RStrip(s) ==
    IF s # <<>> /\ s[Len(s)] = " " THEN RStrip(SubSeq(s, 1, Len(s) - 1)) ELSE s

\* str.strip()
strip(s) == RStrip(LStrip(s))

RECURSIVE DigitsValue(_, _)
\* the integer a run of digits spells, after the digits already read
DigitsValue(s, acc) ==
    IF s = <<>> THEN acc ELSE DigitsValue(Tail(s), 10 * acc + DigitVal(Head(s)))

RECURSIVE NatStr(_)
\* the decimal digits of a natural number
NatStr(n) ==
    IF n < 10 THEN <<DigitChar(n)>> ELSE Append(NatStr(n \div 10), DigitChar(n % 10))

RECURSIVE ZeroPad(_, _)
ZeroPad(s, n) == IF Len(s) >= n THEN s ELSE ZeroPad(<<"0">> \o s, n)

\* str(x) of a float: repr, in positional notation
FloatStr(a) ==
    LET ds == ZeroPad(NatStr(Abs(a.m)), a.e + 1)
        ip == SubSeq(ds, 1, Len(ds) - a.e)
        fp == IF a.e = 0 THEN <<"0">> ELSE SubSeq(ds, Len(ds) - a.e + 1, Len(ds))
    IN  (IF a.m < 0 THEN <<"-">> ELSE <<>>) \o ip \o <<".">> \o fp

\* str(value)
str(v) ==
    CASE v.k = "str" -> v.s
      [] v.k = "float" -> FloatStr(v)
      [] v.k = "nan" -> <<"n", "a", "n">>
      [] OTHER -> <<"N", "o", "n", "e">>

\* float(s) for s of digits, "." and "-" only: None stands for ValueError
float(s) ==
    LET neg  == s # <<>> /\ Head(s) = "-"
        body == IF neg THEN Tail(s) ELSE s
        dots == SelectSeq(body, LAMBDA c : c = ".")
        digs == SelectSeq(body, LAMBDA c : c \in Digits)
        dot  == CHOOSE i \in 1..Len(body) : body[i] = "."
        frac == IF dots = <<>> THEN 0 ELSE Len(body) - dot
        mag  == DigitsValue(digs, 0)
    IN  IF \/ digs = <<>>
           \/ Len(dots) > 1
           \/ \E i \in 1..Len(body) : body[i] = "-"
        THEN None
        ELSE Float(IF neg THEN -mag ELSE mag, frac)

(***************************************************************************)
(* clean_num                                                               *)
(***************************************************************************)
\* the strings clean_num rejects outright
Sentinels ==
    { <<>>, <<"n", "a", "n">>, <<"-">>, <<EnDash>>, <<".">>,
      <<"N", "/", "A">>, <<"n", "/", "a">> }

\* s.replace(",", "")
RemoveCommas(s) == SelectSeq(s, LAMBDA c : c # ",")

\* (500) -> -500
Parenthesised(s) ==
    IF s # <<>> /\ Head(s) = "(" /\ s[Len(s)] = ")"
    THEN <<"-">> \o SubSeq(s, 2, Len(s) - 1)
    ELSE s

TrailingMinusKept(s) == s

\* 500- or 500<en-dash> -> -500
TrailingMinus(s) ==
    IF s # <<>> /\ s[Len(s)] \in {"-", EnDash}
    THEN <<"-">> \o SubSeq(s, 1, Len(s) - 1)
    ELSE s

\* s.replace(<en-dash>, "-")
ReplaceEnDash(s) == [i \in 1..Len(s) |-> IF s[i] = EnDash THEN "-" ELSE s[i]]

\* re.sub(r"[^\d.\-]", "", s)
StripStray(s) == SelectSeq(s, LAMBDA c : c \in Digits \cup {".", "-"})

clean_num(v) ==
    IF v = None THEN None
    ELSE LET s == strip(str(v)) IN
         IF s \in Sentinels THEN None
         ELSE LET t == StripStray(ReplaceEnDash(TrailingMinus(
                           Parenthesised(RemoveCommas(s)))))
              IN  IF t = <<>> \/ t \in {<<"-">>, <<".">>} THEN None
                  ELSE float(t)

(***************************************************************************)
(* clean_num applied to one value                                          *)
(***************************************************************************)
MaxLen == 4

\* the characters the inputs are written with
CleanAlphabet == {"0", "5", ",", ".", "-", EnDash, "(", ")", " ", "a"}

Strings(n) == UNION {[1..k -> CleanAlphabet] : k \in 0..n}

S_1234_56   == <<"1", ",", "2", "3", "4", ".", "5", "6">>
S_500_minus == <<"5", "0", "0", "-">>
S_minus_500 == <<"-", "5", "0", "0">>
S_paren_500 == <<"(", "5", "0", "0", ")">>
S_500_dash  == <<"5", "0", "0", EnDash>>
S_n_a       == <<"n", "/", "a">>

CleanNumInputs ==
    {None} \cup
    {Str(s) : s \in Strings(MaxLen) \cup
        {S_1234_56, S_500_minus, S_minus_500, S_paren_500, S_500_dash, S_n_a}}

IdleTables ==
    /\ extracted = Idle /\ coord_rows_d = Idle /\ dfs = Idle /\ outcome = Idle
IdleLines == words = <<>> /\ lines = <<>>
IdleSection == raw_text = <<>> /\ section_keyword = Idle /\ section = Idle
IdleNum == value = Idle /\ num = Idle
IdleShift == rows = <<>> /\ fixed = <<>>

InitNum ==
    /\ pc = "clean_num"
    /\ value \in CleanNumInputs
    /\ num = Idle
    /\ IdleShift /\ IdleTables /\ IdleLines /\ IdleSection

CleanNum ==
    /\ pc = "clean_num"
    /\ num' = clean_num(value)
    /\ pc' = "cleaned"
    /\ UNCHANGED <<value, rows, fixed, extracted, coord_rows_d, dfs, outcome,
                   words, lines, raw_text, section_keyword, section>>

NextNum == CleanNum

SpecNum == InitNum /\ [][NextNum]_vars

\* an unsigned numeral: digits, thousands commas and at most one period
IsNumeral(s) ==
    /\ \A i \in 1..Len(s) : s[i] \in Digits \cup {",", "."}
    /\ \E i \in 1..Len(s) : s[i] \in Digits
    /\ Len(SelectSeq(s, LAMBDA c : c = ".")) <= 1

Numerals == {s \in Strings(MaxLen - 2) : IsNumeral(s)}

\* the value an unsigned numeral denotes, read off its digits
NumeralValue(s) ==
    LET plain == SelectSeq(s, LAMBDA c : c # ",")
        dot   == CHOOSE i \in 1..Len(plain) : plain[i] = "."
        frac  == IF \E i \in 1..Len(plain) : plain[i] = "."
                 THEN Len(plain) - dot ELSE 0
    IN  Float(DigitsValue(SelectSeq(plain, LAMBDA c : c \in Digits), 0), frac)

\* C5: clean_num maps "1,234.56" to 1234.56, each of "500-", "-500", "(500)"
\* and "500<en-dash>" to -500, each junk input "", "-", ".", "n/a" to None,
\* and for every unsigned numeral X the forms X-, -X and (X) to -X.
C5_CleanNumFormats ==
    pc = "cleaned" =>
        /\ value = Str(S_1234_56) => num = Float(123456, 2)
        /\ value \in {Str(S_500_minus), Str(S_minus_500), Str(S_paren_500),
                      Str(S_500_dash)} => num = Float(-500, 0)
        /\ value \in {Str(<<>>), Str(<<"-">>), Str(<<".">>), Str(S_n_a)}
               => num = None
        /\ \A X \in Numerals :
               value \in {Str(X \o <<"-">>), Str(<<"-">> \o X),
                          Str(<<"(">> \o X \o <<")">>)}
                   => num = FNeg(NumeralValue(X))

\* the trailing-minus form of a numeral with a fraction was cleaned
C5_Witness ==
    /\ pc = "cleaned"
    /\ value = Str(<<"5", ".", "5", "-">>)
    /\ num = Float(-55, 1)

(***************************************************************************)
(* fix_table_e_shifts                                                      *)
(***************************************************************************)
\* [v for v in [...] if v is not None]
NumericVals(slots) == SelectSeq(slots, LAMBDA v : v # None)

RECURSIVE max(_)
\* Python's max of a non-empty list of floats: the first maximal element
max(vals) ==
    IF Len(vals) = 1 THEN vals[1]
    ELSE LET m == max(SubSeq(vals, 1, Len(vals) - 1))
         IN  IF FLt(m, vals[Len(vals)]) THEN vals[Len(vals)] ELSE m

\* the indices (from 0) of the slots that hold max_val
MaxPositions(raw_slots, max_val) ==
    {i \in 0..(Len(raw_slots) - 1) :
        raw_slots[i + 1] # None /\ raw_slots[i + 1] = max_val}

MaxIdxLast(raw_slots, max_val) ==
    CHOOSE i \in MaxPositions(raw_slots, max_val) :
        \A j \in MaxPositions(raw_slots, max_val) : i >= j

\* the first index whose slot holds max_val (the loop breaks there)
MaxIdx(raw_slots, max_val) ==
    CHOOSE i \in MaxPositions(raw_slots, max_val) :
        \A j \in MaxPositions(raw_slots, max_val) : i <= j

RotatedLeft(raw_slots, shift) ==
    IF shift # 0
    THEN SubSeq(raw_slots, shift + 1, Len(raw_slots)) \o SubSeq(raw_slots, 1, shift)
    ELSE raw_slots

RotatedSwap(raw_slots, shift) ==
    [raw_slots EXCEPT ![Len(raw_slots)] = raw_slots[Len(raw_slots) - shift],
                      ![Len(raw_slots) - shift] = raw_slots[Len(raw_slots)]]

RotatedByOne(raw_slots, shift) ==
    IF shift # 0
    THEN SubSeq(raw_slots, Len(raw_slots), Len(raw_slots))
            \o SubSeq(raw_slots, 1, Len(raw_slots) - 1)
    ELSE raw_slots

\* raw_slots[-shift:] + raw_slots[:-shift] if shift else raw_slots
Rotated(raw_slots, shift) ==
    IF shift # 0
    THEN SubSeq(raw_slots, Len(raw_slots) - shift + 1, Len(raw_slots))
            \o SubSeq(raw_slots, 1, Len(raw_slots) - shift)
    ELSE raw_slots

\* one turn of the loop: the dict appended to fixed for row
FixRow(row) ==
    LET month     == row.month
        salary    == clean_num(row.salary)
        employee  == clean_num(row.employee)
        employer  == clean_num(row.employer)
        severance == clean_num(row.severance)
        total     == clean_num(row.total)
        asIs      == [month |-> month, salary |-> salary, employee |-> employee,
                      employer |-> employer, severance |-> severance,
                      total |-> total]
        raw_slots == <<employee, employer, severance, total>>
        numeric_vals == NumericVals(raw_slots)
        max_val   == max(numeric_vals)
        shift     == 3 - MaxIdx(raw_slots, max_val)
        rotated   == Rotated(raw_slots, shift)
    IN  IF numeric_vals = <<>> THEN asIs
        ELSE IF total = max_val THEN asIs
        ELSE IF MaxPositions(raw_slots, max_val) = {} THEN asIs
        ELSE [month |-> month, salary |-> salary, employee |-> rotated[1],
              employer |-> rotated[2], severance |-> rotated[3],
              total |-> rotated[4]]

\* a row with its numbers cleaned and left where they are
CleanedRow(row) ==
    [month |-> row.month, salary |-> clean_num(row.salary),
     employee |-> clean_num(row.employee), employer |-> clean_num(row.employer),
     severance |-> clean_num(row.severance), total |-> clean_num(row.total)]

fix_last_row_only(rs) ==
    [i \in 1..Len(rs) |-> IF i = Len(rs) THEN FixRow(rs[i]) ELSE CleanedRow(rs[i])]

fix_table_e_shifts_raw_salary(rs) ==
    [i \in 1..Len(rs) |-> [FixRow(rs[i]) EXCEPT !.salary = rs[i].salary]]

fix_table_e_shifts(rs) == [i \in 1..Len(rs) |-> FixRow(rs[i])]

(***************************************************************************)
(* fix_table_e_shifts applied to one list of rows                          *)
(***************************************************************************)
NumMagnitudes == 5
MaxRows == 2

MagnitudeOf(k) == 500 * (k + 1)

\* an amount as the reports print it: 1,000
ThousandsStr(n) ==
    IF n < 1000 THEN NatStr(n)
    ELSE NatStr(n \div 1000) \o <<",">> \o ZeroPad(NatStr(n % 1000), 3)

Amount(n) == Str(ThousandsStr(n))

Month(n) == Str(<<"0", DigitChar(n), "/", "2", "4">>)

LedgerRow(mo, sal, ee, er, sev, tot) ==
    [month |-> mo, salary |-> sal, employee |-> ee, employer |-> er,
     severance |-> sev, total |-> tot]

\* what a contribution cell can hold: null, a dash, an amount
Cells == {None, Str(<<"-">>)} \cup {Amount(MagnitudeOf(k)) : k \in 1..NumMagnitudes}

RichRows ==
    {LedgerRow(Month(1), sal, ee, er, sev, tot) :
        sal \in {None, Amount(9000)}, ee \in Cells, er \in Cells,
        sev \in Cells, tot \in Cells}

PoorRows ==
    {LedgerRow(mo, sal, ee, None, None, tot) :
        mo \in {Month(1), Month(2)}, sal \in {None, Amount(9000)},
        ee \in {None, Amount(3000)},
        tot \in {None, Amount(1000), Amount(3000)}}

Lists(S, n) == UNION {[1..k -> S] : k \in 0..n}

ShiftInputs == {<<r>> : r \in RichRows} \cup Lists(PoorRows, MaxRows)

InitShift ==
    /\ pc = "fix_shifts"
    /\ rows \in ShiftInputs
    /\ fixed = <<>>
    /\ IdleNum /\ IdleTables /\ IdleLines /\ IdleSection

FixTableEShifts ==
    /\ pc = "fix_shifts"
    /\ fixed' = fix_table_e_shifts(rows)
    /\ pc' = "fixed"
    /\ UNCHANGED <<value, num, rows, extracted, coord_rows_d, dfs, outcome,
                   words, lines, raw_text, section_keyword, section>>

NextShift == FixTableEShifts

SpecShift == InitShift /\ [][NextShift]_vars

\* the four contribution fields in extraction order
Slots(r) == <<r.employee, r.employer, r.severance, r.total>>

\* the four fields of an input row as numbers
InSlots(row) == Slots(CleanedRow(row))

Populated(s) == {j \in 1..Len(s) : s[j] # None}

\* v is the largest of the populated values of s
IsMaxOf(v, s) ==
    /\ \E j \in Populated(s) : s[j] = v
    /\ \A j \in Populated(s) : FLe(s[j], v)

Count(s, v) == Cardinality({j \in 1..Len(s) : s[j] = v})

SameMultiset(s, u) == \A j \in 1..Len(s) : Count(s, s[j]) = Count(u, s[j])

\* u is s turned k places to the right: s[j] moves to slot j + k, cyclically
TurnedRight(s, u, k) ==
    \A j \in 1..Len(s) : u[((j - 1 + k) % Len(s)) + 1] = s[j]

F(n) == Float(n, 0)

\* C1: a row whose four contribution fields are all populated comes back with
\* the largest of the four values in total and with the same multiset of values.
C1_MaxInTotalSameMultiset ==
    pc = "fixed" =>
        \A i \in 1..Len(rows) :
            Populated(InSlots(rows[i])) = 1..4 =>
                /\ IsMaxOf(fixed[i].total, InSlots(rows[i]))
                /\ SameMultiset(InSlots(rows[i]), Slots(fixed[i]))
                /\ SameMultiset(Slots(fixed[i]), InSlots(rows[i]))

\* a fully populated row with its largest value in employee was corrected
C1_Witness ==
    /\ pc = "fixed"
    /\ Len(rows) = 1
    /\ InSlots(rows[1]) = <<F(3000), F(1000), F(1500), F(2500)>>
    /\ fixed[1].total = F(3000)

\* the largest value is not in total
Shifted(s) == Populated(s) # {} /\ ~IsMaxOf(s[4], s)

\* the first slot holding the largest value
FirstMaxSlot(s) ==
    CHOOSE j \in Populated(s) :
        /\ IsMaxOf(s[j], s)
        /\ \A h \in Populated(s) : IsMaxOf(s[h], s) => j <= h

\* s without its j-th element
Without(s, j) == SubSeq(s, 1, j - 1) \o SubSeq(s, j + 1, Len(s))

\* C2 as the specification states it: when the largest of the four values is
\* not in total, it moves to total and the other three keep their relative
\* order in (employee, employer, severance); (1000, 1500, 3000, 2500) becomes
\* (1000, 1500, 2500, 3000).
C2_OthersKeepOrder ==
    pc = "fixed" =>
        \A i \in 1..Len(rows) :
            LET s == InSlots(rows[i]) IN
            (Populated(s) = 1..4 /\ Shifted(s)) =>
                Slots(fixed[i]) = Without(s, FirstMaxSlot(s)) \o <<s[FirstMaxSlot(s)]>>

\* C2, amended: when the largest of the four values is not in total, the four
\* values are turned cyclically to the right until the first field holding the
\* largest value reaches total; the other three keep their cyclic order, and
\* their order in (employee, employer, severance) only when the largest value
\* was in employee; (1000, 1500, 3000, 2500) becomes (2500, 1000, 1500, 3000).
C2_CyclicRotation ==
    pc = "fixed" =>
        \A i \in 1..Len(rows) :
            LET s == InSlots(rows[i]) IN
            (Populated(s) = 1..4 /\ Shifted(s)) =>
                /\ TurnedRight(s, Slots(fixed[i]), 4 - FirstMaxSlot(s))
                /\ FirstMaxSlot(s) = 1 => Slots(fixed[i]) = Without(s, 1) \o <<s[1]>>
                /\ s = <<F(1000), F(1500), F(3000), F(2500)>>
                       => Slots(fixed[i]) = <<F(2500), F(1000), F(1500), F(3000)>>

\* the row of the specification's scenario was corrected
C2_Witness ==
    /\ pc = "fixed"
    /\ Len(rows) = 1
    /\ InSlots(rows[1]) = <<F(1000), F(1500), F(3000), F(2500)>>
    /\ Slots(fixed[1]) = <<F(2500), F(1000), F(1500), F(3000)>>

C4_OnlySummaryRowCorrected ==
    pc = "fixed" =>
        \A i \in 1..(Len(rows) - 1) : Slots(fixed[i]) = InSlots(rows[i])

\* C4, amended: the correction is applied to every row of the list, summary or
\* not: a row keeps its four values in their original fields exactly when none
\* of them is populated or its total is the largest populated value; every
\* other row, wherever it stands in the list, comes back with the largest value
\* in total.
C4_EveryRowCorrected ==
    pc = "fixed" =>
        \A i \in 1..Len(rows) :
            LET s == InSlots(rows[i]) IN
            /\ (Slots(fixed[i]) = s) <=> ~Shifted(s)
            /\ Shifted(s) => IsMaxOf(fixed[i].total, s)

\* a row that is not the last one was corrected
C4_Witness ==
    /\ pc = "fixed"
    /\ Len(rows) = 2
    /\ InSlots(rows[1]) = <<F(3000), None, None, F(1000)>>
    /\ Slots(fixed[1]) = <<None, None, F(1000), F(3000)>>

(***************************************************************************)
(* The DataFrame builders.  A DataFrame is the sequence of its rows; the   *)
(* empty DataFrame is <<>>.                                                *)
(***************************************************************************)
\* a column of clean_num results as pandas holds it: beside a float, None is NaN
Series(vals) ==
    IF \E i \in 1..Len(vals) : vals[i].k = "float"
    THEN [i \in 1..Len(vals) |-> IF vals[i] = None THEN NaN ELSE vals[i]]
    ELSE vals

build_table_a(rs) ==
    LET amount == Series([i \in 1..Len(rs) |-> clean_num(rs[i].amount)])
    IN  [i \in 1..Len(rs) |-> [description |-> rs[i].description, amount |-> amount[i]]]

build_table_b(rs) ==
    LET amount == Series([i \in 1..Len(rs) |-> clean_num(rs[i].amount)])
    IN  [i \in 1..Len(rs) |-> [description |-> rs[i].description, amount |-> amount[i]]]

build_table_c(rs) ==
    LET percentage == Series([i \in 1..Len(rs) |-> clean_num(rs[i].percentage)])
    IN  [i \in 1..Len(rs) |->
            [description |-> rs[i].description, percentage |-> percentage[i]]]

build_table_d(rs) ==
    LET pct == Series([i \in 1..Len(rs) |-> clean_num(rs[i].return_percentage)])
    IN  [i \in 1..Len(rs) |->
            [track_name |-> rs[i].track_name, return_percentage |-> pct[i]]]

\* pd.to_numeric(errors="coerce") of a float or None
to_numeric(v) == IF v.k = "float" THEN v ELSE NaN

\* the numeric columns of one row of table E, coerced
NumericRow(r) ==
    [month |-> r.month, salary |-> to_numeric(r.salary),
     employee |-> to_numeric(r.employee), employer |-> to_numeric(r.employer),
     severance |-> to_numeric(r.severance), total |-> to_numeric(r.total)]

build_table_e(rs) ==
    LET fx == fix_table_e_shifts(rs)
    IN  [i \in 1..Len(rs) |-> NumericRow(fx[i])]

(***************************************************************************)
(* Cross-validation of table B against table E                             *)
(***************************************************************************)
\* kw in s
Contains(s, kw) ==
    \E i \in 0..(Len(s) - Len(kw)) : SubSeq(s, i + 1, i + Len(kw)) = kw

\* the Hebrew letters are written by name
_DEPOSIT_KEYWORDS ==
    { <<"he", "pe", "qof", "dalet", "vav", "tav">>,
      <<"he", "pe", "qof", "dalet", "he">>,
      <<"d", "e", "p", "o", "s", "i", "t", "s">>,
      <<"d", "e", "p", "o", "s", "i", "t">>,
      <<"qof", "resh", "nun-sofit">>,
      <<"kaf", "vav", "lamed", "lamed">> }

HasDepositKeyword(description) ==
    \E kw \in _DEPOSIT_KEYWORDS : Contains(str(description), kw)

RECURSIVE find_total_of_first_keyword_row(_)
find_total_of_first_keyword_row(table_b_df) ==
    IF table_b_df = <<>> THEN None
    ELSE IF HasDepositKeyword(Head(table_b_df).description)
    THEN clean_num(Head(table_b_df).amount)
    ELSE find_total_of_first_keyword_row(Tail(table_b_df))

RECURSIVE find_total_deposits_table_b(_)
\* the amount of the first keyword row whose amount cleans to a number
find_total_deposits_table_b(table_b_df) ==
    IF table_b_df = <<>> THEN None
    ELSE LET row == Head(table_b_df)
             val == clean_num(row.amount)
         IN  IF HasDepositKeyword(row.description) /\ val # None THEN val
             ELSE find_total_deposits_table_b(Tail(table_b_df))

SeriesSumLast(col) ==
    IF col # <<>> /\ col[Len(col)].k = "float" THEN col[Len(col)] ELSE Float(0, 0)

RECURSIVE SeriesSum(_)
\* Series.sum(): NaN entries are skipped, the empty sum is 0.0
SeriesSum(col) ==
    IF col = <<>> THEN Float(0, 0)
    ELSE IF Head(col).k = "float" THEN FAdd(Head(col), SeriesSum(Tail(col)))
    ELSE SeriesSum(Tail(col))

TolerancePercentOnly(b_total) == FHundredth(FAbs(b_total))

\* max(1.0, abs(b_total) * 0.01)
Tolerance(b_total) ==
    IF FLt(Float(1, 0), FHundredth(FAbs(b_total)))
    THEN FHundredth(FAbs(b_total)) ELSE Float(1, 0)

Shown(status, message, b, e, d) ==
    [status |-> status, message |-> message, b_total |-> b, e_sum |-> e, diff |-> d]

\* what cross_validate compares once both sides are there
Compare(b_total, table_e_df) ==
    LET e_sum == SeriesSum([i \in 1..Len(table_e_df) |-> table_e_df[i].total])
        diff  == FAbs(FSub(b_total, e_sum))
    IN  IF e_sum.k = "nan" THEN Shown("info", "table E NaN", None, None, None)
        ELSE IF FLe(diff, Tolerance(b_total))
        THEN Shown("success", "PASSED", b_total, e_sum, diff)
        ELSE Shown("warning", "MISMATCH", b_total, e_sum, diff)

cross_validate_unguarded(table_b_df, table_e_df) ==
    LET b_total == find_total_deposits_table_b(table_b_df)
    IN  IF b_total = None
        THEN Shown("info", "no deposit row", None, None, None)
        ELSE Compare(b_total, table_e_df)

\* the Streamlit message cross_validate displays
cross_validate(table_b_df, table_e_df) ==
    LET b_total == find_total_deposits_table_b(table_b_df)
    IN  IF b_total = None
        THEN Shown("info", "no deposit row", None, None, None)
        ELSE IF table_e_df = <<>>
        THEN Shown("info", "table E empty", None, None, None)
        ELSE Compare(b_total, table_e_df)

(***************************************************************************)
(* The main flow, from the dict call_openai returned                       *)
(***************************************************************************)
NotBuilt == [k |-> "not built"]

\* Step 3: dfs[key] = builder(rows) if rows else pd.DataFrame()
BuildDataFrames ==
    /\ pc = "build"
    /\ dfs' = [table_a |-> build_table_a(extracted.table_a),
               table_b |-> build_table_b(extracted.table_b),
               table_c |-> build_table_c(extracted.table_c),
               table_d |-> NotBuilt,
               table_e |-> build_table_e(extracted.table_e)]
    /\ pc' = "table_d"
    /\ UNCHANGED <<value, num, rows, fixed, extracted, coord_rows_d, outcome,
                   words, lines, raw_text, section_keyword, section>>

\* table D from the coordinates, or from GPT-4o when they gave no rows
BuildTableD ==
    /\ pc = "table_d"
    /\ dfs' = [dfs EXCEPT !.table_d =
                  IF coord_rows_d # <<>> THEN build_table_d(coord_rows_d)
                  ELSE build_table_d(extracted.table_d)]
    /\ pc' = "validate"
    /\ UNCHANGED <<value, num, rows, fixed, extracted, coord_rows_d, outcome,
                   words, lines, raw_text, section_keyword, section>>

\* Step 4
CrossValidate ==
    /\ pc = "validate"
    /\ outcome' = cross_validate(dfs.table_b, dfs.table_e)
    /\ pc' = "validated"
    /\ UNCHANGED <<value, num, rows, fixed, extracted, coord_rows_d, dfs,
                   words, lines, raw_text, section_keyword, section>>

Next == BuildDataFrames \/ BuildTableD \/ CrossValidate

\* the rows GPT-4o can return
D_deposits == Str(<<"d", "e", "p", "o", "s", "i", "t", "s">>)
D_fees     == Str(<<"f", "e", "e", "s">>)
D_fund     == Str(<<"bet", "qof", "resh", "nun-sofit">>)

PaymentRow(d, a) == [description |-> d, amount |-> a]

RowA == PaymentRow(D_fees, Amount(1000))
RowC == [description |-> D_fees, percentage |-> Str(<<"0", ".", "5">>)]
RowD == [track_name |-> D_fund, return_percentage |-> Str(<<"4", ".", "2", "5", "%">>)]

BRows == {PaymentRow(d, a) : d \in {D_deposits, D_fees, D_fund},
                             a \in {None, Amount(10000), Amount(20000)}}

ERows == {LedgerRow(Month(1), None, ee, None, None, tot) :
              ee \in {None, Amount(10500)},
              tot \in {None, Amount(10050), Amount(10500)}}

Extracted(a, b, c, d, e) ==
    [table_a |-> a, table_b |-> b, table_c |-> c, table_d |-> d, table_e |-> e]

OneOrNone(r) == {<<>>, <<r>>}

\* any of the five tables empty or not
SparseInputs ==
    {<<Extracted(a, b, c, d, e), cd>> :
        a \in OneOrNone(RowA), b \in OneOrNone(PaymentRow(D_deposits, Amount(10000))),
        c \in OneOrNone(RowC), d \in OneOrNone(RowD),
        e \in OneOrNone(LedgerRow(Month(1), None, None, None, None, Amount(10050))),
        cd \in OneOrNone(RowD)}

\* tables B and E of several rows
ListInputs ==
    {<<Extracted(<<>>, b, <<>>, <<>>, e), <<>>>> :
        b \in Lists(BRows, MaxRows), e \in Lists(ERows, MaxRows)}

Negative(n) == Str(ThousandsStr(n) \o <<"-">>)

\* one deposit row against one ledger row, around the tolerance
ToleranceInputs ==
    {<<Extracted(<<>>, <<PaymentRow(D_deposits, a)>>, <<>>, <<>>,
                 <<LedgerRow(Month(1), None, None, None, None, tot)>>), <<>>>> :
        a \in {Amount(10000), Negative(10000), Amount(50), Amount(0)},
        tot \in {Amount(10050), Amount(10500), Amount(10100), Amount(10101),
                 Amount(9900), Amount(9899), Negative(10050), Negative(10500),
                 Amount(51), Amount(52), Amount(0), Amount(1), Amount(2)}}

Init ==
    /\ pc = "build"
    /\ \E in \in SparseInputs \cup ListInputs \cup ToleranceInputs :
           extracted = in[1] /\ coord_rows_d = in[2]
    /\ dfs = Idle /\ outcome = Idle
    /\ IdleNum /\ IdleShift /\ IdleLines /\ IdleSection

Spec == Init /\ [][Next]_vars

\* both sides were located and compared
Compared == pc = "validated" /\ outcome.status \in {"success", "warning"}

\* a float of at most two decimals, in hundredths
Hundredths(v) == v.m * Pow10(2 - v.e)

Larger(a, b) == IF a >= b THEN a ELSE b

DiffHundredths == Abs(Hundredths(outcome.b_total) - Hundredths(outcome.e_sum))

\* C6 as the specification states it: Match exactly when |b_value - e_value|
\* <= max(1.0, 1% of b_value), for negative b_value too.
C6_OnePercentOfB ==
    Compared =>
        (outcome.status = "success" <=>
            100 * DiffHundredths <= Larger(10000, Hundredths(outcome.b_total)))

\* C6, amended: Match exactly when |b_value - e_value| <= max(1.0, 1% of
\* |b_value|), Mismatch otherwise; with b_value = 10000, Match for e_value =
\* 10050 and Mismatch for e_value = 10500.
C6_OnePercentOfAbsB ==
    Compared =>
        /\ outcome.status = "success" <=>
               100 * DiffHundredths <= Larger(10000, Abs(Hundredths(outcome.b_total)))
        /\ (outcome.b_total = F(10000) /\ outcome.e_sum = F(10050))
               => outcome.status = "success"
        /\ (outcome.b_total = F(10000) /\ outcome.e_sum = F(10500))
               => outcome.status = "warning"

\* a negative deposit amount was matched within one percent of its magnitude
C6_Witness ==
    /\ Compared
    /\ outcome.b_total = F(-10000)
    /\ outcome.e_sum = F(-10050)
    /\ outcome.status = "success"

\* the total column of table E as built
TotalColumn == [i \in 1..Len(dfs.table_e) |-> dfs.table_e[i].total]

RECURSIVE SumHundredths(_)
SumHundredths(col) ==
    IF col = <<>> THEN 0
    ELSE (IF Head(col).k = "float" THEN Hundredths(Head(col)) ELSE 0)
         + SumHundredths(Tail(col))

\* C7 as the specification states it: the e_value compared is the total of the
\* summary (last) row alone; the detail rows' totals do not contribute.
C7_SummaryTotalAlone ==
    (Compared /\ Len(dfs.table_e) >= 2
              /\ TotalColumn[Len(dfs.table_e)].k = "float") =>
        outcome.e_sum = TotalColumn[Len(dfs.table_e)]

\* C7, amended: the e_value compared is the sum of the total field over all
\* rows of table E, detail rows included, a missing total counting as zero.
C7_SumOfAllTotals ==
    Compared => Hundredths(outcome.e_sum) = SumHundredths(TotalColumn)

\* two rows with totals were summed
C7_Witness ==
    /\ Compared
    /\ TotalColumn = <<F(10050), F(10050)>>
    /\ outcome.e_sum = F(20100)

NoKeywordRow(table_b) ==
    \A i \in 1..Len(table_b) : ~HasDepositKeyword(table_b[i].description)

AllExtractedEmpty ==
    /\ extracted = Extracted(<<>>, <<>>, <<>>, <<>>, <<>>)
    /\ coord_rows_d = <<>>

\* C8: cross_validate displays the informational outcome, neither success nor
\* warning, whenever table B has no row with a deposit keyword or table E has
\* no rows; when every extracted table is empty, all five DataFrames are empty
\* and the outcome is informational.
C8_Indeterminate ==
    pc = "validated" =>
        /\ (NoKeywordRow(extracted.table_b) \/ extracted.table_e = <<>>)
               => outcome.status = "info"
        /\ AllExtractedEmpty =>
               /\ \A key \in DOMAIN dfs : dfs[key] = <<>>
               /\ outcome.status = "info"

\* a deposit row was found and table E had no rows
C8_Witness ==
    /\ pc = "validated"
    /\ ~NoKeywordRow(extracted.table_b)
    /\ find_total_deposits_table_b(dfs.table_b) = F(10000)
    /\ extracted.table_e = <<>>
    /\ outcome.status = "info"
    /\ outcome.message = "table E empty"

(***************************************************************************)
(* extract_table_d_by_coordinates: the section's words grouped into lines. *)
(* A word is [word_no, y0]: PyMuPDF's number of the word and the top of    *)
(* its box, in half units (y0 = 3 is 1.5).  The lines dict is the sequence *)
(* of its items, in insertion order.                                       *)
(***************************************************************************)
Y_TOL == 4
MaxWords == 3
MaxY == 8

\* round(y, 0) of y = h / 2: halves go to the even neighbour
round0(h) ==
    IF h % 2 = 0 THEN h \div 2
    ELSE IF (h \div 2) % 2 = 0 THEN h \div 2 ELSE (h \div 2) + 1

NearStrict(k, y) == Abs(k - y) < Y_TOL

\* abs(k - y) <= Y_TOL
Near(k, y) == Abs(k - y) <= Y_TOL

MatchedLast(ls, y) ==
    CHOOSE i \in 1..Len(ls) :
        /\ Near(ls[i].key, y)
        /\ \A j \in 1..Len(ls) : Near(ls[j].key, y) => i >= j

\* next((k for k in lines if abs(k - y) <= Y_TOL), None), as an index of the dict
Matched(ls, y) ==
    CHOOSE i \in 1..Len(ls) :
        /\ Near(ls[i].key, y)
        /\ \A j \in 1..Len(ls) : Near(ls[j].key, y) => i <= j

\* lines.setdefault(key, []).append(w)
AddWord(ls, w) ==
    IF \E i \in 1..Len(ls) : Near(ls[i].key, round0(w.y0))
    THEN [ls EXCEPT ![Matched(ls, round0(w.y0))].words = Append(@, w)]
    ELSE Append(ls, [key |-> round0(w.y0), words |-> <<w>>])

RECURSIVE GroupWords(_, _)
\* the loop over sec_words
GroupWords(ws, ls) ==
    IF ws = <<>> THEN ls ELSE GroupWords(Tail(ws), AddWord(ls, Head(ws)))

Word(n, h) == [word_no |-> n, y0 |-> h]

\* the tops a word can have, in half units
Tops == 0..(2 * MaxY + 1)

InitLines ==
    /\ pc = "group"
    /\ \E n \in 0..MaxWords : \E ys \in [1..n -> Tops] :
           words = [i \in 1..n |-> Word(i, ys[i])]
    /\ lines = <<>>
    /\ IdleNum /\ IdleShift /\ IdleTables /\ IdleSection

GroupLines ==
    /\ pc = "group"
    /\ lines' = GroupWords(words, <<>>)
    /\ pc' = "grouped"
    /\ UNCHANGED <<value, num, rows, fixed, extracted, coord_rows_d, dfs, outcome,
                   words, raw_text, section_keyword, section>>

NextLines == GroupLines

SpecLines == InitLines /\ [][NextLines]_vars

\* the orderings of n words
Orderings(n) == Permutations(1..n)

Reordered(ws, f) == [i \in 1..Len(ws) |-> ws[f[i]]]

\* which words share a line
Partition(ls) ==
    {{ls[i].words[j].word_no : j \in 1..Len(ls[i].words)} : i \in 1..Len(ls)}

\* two words whose rounded tops are within Y_TOL of each other
Close(v, w) ==
    /\ round0(v.y0) - round0(w.y0) <= Y_TOL
    /\ round0(w.y0) - round0(v.y0) <= Y_TOL

\* being close is transitive on the words: they fall into separated buckets
Separated(ws) ==
    \A i, j, h \in 1..Len(ws) :
        (Close(ws[i], ws[j]) /\ Close(ws[j], ws[h])) => Close(ws[i], ws[h])

Buckets(ws) ==
    {{ws[j].word_no : j \in {h \in 1..Len(ws) : Close(ws[i], ws[h])}} :
        i \in 1..Len(ws)}

\* C9 as the specification states it: every two orderings of the same words
\* are grouped into the same partition of the words into lines.
C9_OrderIndependent ==
    pc = "grouped" =>
        \A f \in Orderings(Len(words)) :
            Partition(GroupWords(Reordered(words, f), <<>>)) = Partition(lines)

\* C9, amended: when the words fall into separated tolerance buckets (being
\* within Y_TOL of each other's rounded y is transitive on them), every
\* ordering of the words is grouped into the same partition, the buckets; a
\* chain of words each within Y_TOL of the next but not of the one after can be
\* grouped differently in different orders.
C9_OrderIndependentWhenSeparated ==
    (pc = "grouped" /\ Separated(words)) =>
        /\ Partition(lines) = Buckets(words)
        /\ \A f \in Orderings(Len(words)) :
               Partition(GroupWords(Reordered(words, f), <<>>)) = Partition(lines)

\* three words in two separated buckets, the lower word first
C9_Witness ==
    /\ pc = "grouped"
    /\ Len(words) = 3
    /\ Separated(words)
    /\ words[1].y0 > words[2].y0
    /\ Partition(lines) = {{1, 2}, {3}}

(***************************************************************************)
(* extract_section.  raw_text is the sequence of its lines (splitlines);   *)
(* a line is [y, text]: its position in the document and the phrases on    *)
(* it.  A header is one phrase, and no header is part of another, so a     *)
(* header is in a line exactly when it is one of the line's phrases.       *)
(***************************************************************************)
MaxLines == 5

H_payments  == "tashlumim tsfuyim"      \* section A
H_movements == "tnuot bakeren"          \* section B
H_fees      == "dmei nihul"             \* section C
H_tracks    == "maslulei hashkaa"       \* section D
H_deposits  == "perut hafkadot"         \* section E
H_agent     == "pirtei sochen"          \* section F, an end boundary only

_SECTION_HEADERS ==
    <<H_payments, H_movements, H_fees, H_tracks, H_deposits, H_agent>>

\* header in line
InLine(header, line) == \E i \in 1..Len(line.text) : line.text[i] = header

\* the lines that contain section_keyword, as indices from 0
KeywordLines(ls, keyword) ==
    {i \in 0..(Len(ls) - 1) : InLine(keyword, ls[i + 1])}

\* the first loop: the index of the first line containing section_keyword
StartIdx(ls, keyword) ==
    CHOOSE i \in KeywordLines(ls, keyword) :
        \A j \in KeywordLines(ls, keyword) : i <= j

HasAnyHeader(line, keyword) ==
    \E h \in 1..Len(_SECTION_HEADERS) : InLine(_SECTION_HEADERS[h], line)

\* a line that contains a different section header
HasOtherHeader(line, keyword) ==
    \E h \in 1..Len(_SECTION_HEADERS) :
        _SECTION_HEADERS[h] # keyword /\ InLine(_SECTION_HEADERS[h], line)

\* the lines after start_idx that end the section
EndLines(ls, keyword, start_idx) ==
    {i \in (start_idx + 1)..(Len(ls) - 1) : HasOtherHeader(ls[i + 1], keyword)}

EndIdxEndOfText(ls, keyword, start_idx) == Len(ls)

\* the second loop: the first later line with a different header, or len(lines)
EndIdx(ls, keyword, start_idx) ==
    IF EndLines(ls, keyword, start_idx) = {} THEN Len(ls)
    ELSE CHOOSE i \in EndLines(ls, keyword, start_idx) :
             \A j \in EndLines(ls, keyword, start_idx) : i <= j

extract_section_or_nothing(ls, keyword) ==
    IF KeywordLines(ls, keyword) = {} THEN <<>>
    ELSE SubSeq(ls, StartIdx(ls, keyword) + 1,
                EndIdx(ls, keyword, StartIdx(ls, keyword)))

\* lines[start_idx:end_idx], joined; the whole text when the keyword is absent
extract_section(ls, keyword) ==
    IF KeywordLines(ls, keyword) = {} THEN ls
    ELSE SubSeq(ls, StartIdx(ls, keyword) + 1,
                EndIdx(ls, keyword, StartIdx(ls, keyword)))

\* what a line of a report can hold: plain text, a header, two headers
LineTexts ==
    {<<"text">>} \cup {<<_SECTION_HEADERS[h]>> : h \in 1..Len(_SECTION_HEADERS)}
        \cup {<<H_fees, H_tracks>>}

\* the five section anchors
Anchors == {H_payments, H_movements, H_fees, H_tracks, H_deposits}

InitSection ==
    /\ pc = "section"
    /\ \E n \in 0..MaxLines : \E ts \in [1..n -> LineTexts] :
           raw_text = [i \in 1..n |-> [y |-> i, text |-> ts[i]]]
    /\ section_keyword = Idle
    /\ section = Idle
    /\ IdleNum /\ IdleShift /\ IdleTables /\ IdleLines

ExtractSection ==
    /\ pc = "section"
    /\ \E kw \in Anchors :
           /\ section_keyword' = kw
           /\ section' = extract_section(raw_text, kw)
    /\ pc' = "sectioned"
    /\ UNCHANGED <<value, num, rows, fixed, extracted, coord_rows_d, dfs, outcome,
                   words, lines, raw_text>>

NextSection == ExtractSection

SpecSection == InitSection /\ [][NextSection]_vars

AllAnchorsPresent ==
    \A a \in Anchors : \E i \in 1..Len(raw_text) : InLine(a, raw_text[i])

\* the positions of the lines of a returned section
Ys(sec) == {sec[i].y : i \in 1..Len(sec)}

\* the position of the first line holding an anchor
FirstY(a) ==
    CHOOSE y \in 1..Len(raw_text) :
        /\ InLine(a, raw_text[y])
        /\ \A z \in 1..(y - 1) : ~InLine(a, raw_text[z])

\* C10 as the specification states it: with all five anchors in the document,
\* the sections returned for two different anchors share no line, also when
\* one line holds two anchors.
C10_SectionsDisjoint ==
    (pc = "sectioned" /\ AllAnchorsPresent) =>
        \A a \in Anchors \ {section_keyword} :
            Ys(section) \cap Ys(extract_section(raw_text, a)) = {}

\* C10, amended: with all five anchors in the document, the sections returned
\* for two anchors whose first occurrences are on different lines share no
\* line; two anchors that first occur on the same line both have their section
\* start at that line, which belongs to both.
C10_DisjointUnlessSameFirstLine ==
    (pc = "sectioned" /\ AllAnchorsPresent) =>
        \A a \in Anchors \ {section_keyword} :
            IF FirstY(a) # FirstY(section_keyword)
            THEN Ys(section) \cap Ys(extract_section(raw_text, a)) = {}
            ELSE FirstY(a) \in Ys(section) \cap Ys(extract_section(raw_text, a))

\* all five anchors are there and the section of the first ends where the
\* second begins
C10_Witness ==
    /\ pc = "sectioned"
    /\ AllAnchorsPresent
    /\ section_keyword = H_payments
    /\ FirstY(H_payments) = 1
    /\ FirstY(H_movements) = 2
    /\ Ys(section) = {1}

KeywordAbsent == \A i \in 1..Len(raw_text) : ~InLine(section_keyword, raw_text[i])

\* C11 as the specification states it: when the anchor keyword is on no line
\* of the document, the section returned for it is empty.
C11_AbsentAnchorEmptySection ==
    (pc = "sectioned" /\ KeywordAbsent) => section = <<>>

\* C11, amended: when the anchor keyword is on no line of the document,
\* extract_section falls back to the whole document: it returns raw_text
\* unchanged, the lines of the other sections included.
C11_AbsentAnchorWholeText ==
    (pc = "sectioned" /\ KeywordAbsent) => section = raw_text

\* the keyword is absent and the text returned holds two other sections
C11_Witness ==
    /\ pc = "sectioned"
    /\ section_keyword = H_tracks
    /\ KeywordAbsent
    /\ Len(section) = 3
    /\ InLine(H_payments, section[1])
    /\ InLine(H_deposits, section[3])

\* the headers other than the keyword, as a set
OtherHeaders ==
    {_SECTION_HEADERS[h] : h \in 1..Len(_SECTION_HEADERS)} \ {section_keyword}

\* position y holds a header other than the keyword
OtherHeaderAt(y) == \E a \in OtherHeaders : InLine(a, raw_text[y])

\* the positions from the first keyword line up to, not including, the first
\* later line with another header
SectionRun ==
    {y \in FirstY(section_keyword)..Len(raw_text) :
        \A z \in (FirstY(section_keyword) + 1)..y : ~OtherHeaderAt(z)}

\* C13: when section_keyword occurs in the text, extract_section returns the
\* contiguous run of lines from the first line containing it up to, not
\* including, the first later line containing another entry of
\* _SECTION_HEADERS (the end of the text when there is none), in document
\* order; no line of the result after its first contains a different header.
C13_ContiguousRunToNextHeader ==
    (pc = "sectioned" /\ ~KeywordAbsent) =>
        /\ Len(section) = Cardinality(SectionRun)
        /\ \A i \in 1..Len(section) :
               section[i] = raw_text[FirstY(section_keyword) + i - 1]
        /\ \A i \in 2..Len(section) :
               \A a \in OtherHeaders : ~InLine(a, section[i])

\* a section of two lines, its keyword repeated on the second, cut by the
\* header of the next section, with text before and after it
C13_Witness ==
    /\ pc = "sectioned"
    /\ section_keyword = H_movements
    /\ ~KeywordAbsent
    /\ Len(raw_text) = 5
    /\ FirstY(H_movements) = 2
    /\ InLine(H_movements, raw_text[3])
    /\ InLine(H_fees, raw_text[4])
    /\ Ys(section) = {2, 3}

\* C14: a row in which exactly one of employee, employer, severance, total
\* normalizes to a number comes back with that number in total and the other
\* three fields absent, whichever field held it.
C14_SingleValueIsTotal ==
    pc = "fixed" =>
        \A i \in 1..Len(rows) :
            LET s == InSlots(rows[i]) IN
            \A j \in 1..4 :
                Populated(s) = {j} =>
                    Slots(fixed[i]) = <<None, None, None, s[j]>>

\* the only number of a row was in employer, beside two dashes
C14_Witness ==
    /\ pc = "fixed"
    /\ Len(rows) = 1
    /\ rows[1].employee = Str(<<"-">>)
    /\ rows[1].severance = Str(<<"-">>)
    /\ rows[1].total = None
    /\ InSlots(rows[1]) = <<None, F(1500), None, None>>
    /\ Slots(fixed[1]) = <<None, None, None, F(1500)>>

\* C17: fix_table_e_shifts returns one row per input row, in the same order;
\* each keeps its month, its salary is clean_num of the input salary and takes
\* no part in the rotation, and a row whose total is already the largest of
\* its populated contribution fields keeps all four where they were.
C17_RowsMonthSalaryKept ==
    pc = "fixed" =>
        /\ Len(fixed) = Len(rows)
        /\ \A i \in 1..Len(rows) :
               /\ fixed[i].month = rows[i].month
               /\ fixed[i].salary = clean_num(rows[i].salary)
               /\ SameMultiset(InSlots(rows[i]), Slots(fixed[i]))
               /\ SameMultiset(Slots(fixed[i]), InSlots(rows[i]))
               /\ (Populated(InSlots(rows[i])) # {} /\ ~Shifted(InSlots(rows[i])))
                      => Slots(fixed[i]) = InSlots(rows[i])

\* two rows of different months: the first, with a salary larger than its
\* contributions, was rotated; the second, its total already the largest, was not
C17_Witness ==
    /\ pc = "fixed"
    /\ Len(rows) = 2
    /\ rows[1].month = Month(2)
    /\ rows[2].month = Month(1)
    /\ InSlots(rows[1]) = <<F(3000), None, None, F(1000)>>
    /\ Slots(fixed[1]) = <<None, None, F(1000), F(3000)>>
    /\ rows[1].salary = Amount(9000)
    /\ fixed[1].salary = F(9000)
    /\ InSlots(rows[2]) = <<F(3000), None, None, F(3000)>>
    /\ Slots(fixed[2]) = InSlots(rows[2])

\* the rows of table B, as extracted, whose description has a deposit keyword
KeywordRows ==
    {i \in 1..Len(extracted.table_b) :
        HasDepositKeyword(extracted.table_b[i].description)}

\* those of them whose amount normalizes to a number
AmountRows == {i \in KeywordRows : clean_num(extracted.table_b[i].amount) # None}

First(S) == CHOOSE i \in S : \A j \in S : i <= j

\* what find_total_deposits_table_b returned, as the outcome shows it: absent
\* in the "no deposit row" outcome, b_total in a comparison
Found(v) ==
    IF v = None THEN outcome.message = "no deposit row"
    ELSE Compared /\ outcome.b_total = v

PlacesOf(n) ==
    {<<i, j>> \in (1..Len(lines)) \X (1..MaxWords + 1) :
        j <= Len(lines[i].words) /\ lines[i].words[j].word_no = n}

\* the word that created line i, and the y the line is keyed by
Creator(i) == lines[i].words[1].word_no
KeyOf(i) == round0(lines[i].words[1].y0)

\* the lines that were there when word n came and are within Y_TOL of it
CandidatesOf(n) ==
    {i \in 1..Len(lines) :
        /\ Creator(i) < n
        /\ KeyOf(i) - round0(words[n].y0) <= Y_TOL
        /\ round0(words[n].y0) - KeyOf(i) <= Y_TOL}

\* C15: every word is in exactly one line, once, unchanged; a word within
\* Y_TOL of the keys of several lines that exist when it comes joins the first
\* of them in creation order, and a word within Y_TOL of none starts a line;
\* no line has zero words.
C15_OneLineFirstMatchNoEmpty ==
    pc = "grouped" =>
        /\ \A i \in 1..Len(lines) : Len(lines[i].words) >= 1
        /\ \A i \in 1..Len(lines) : lines[i].key = KeyOf(i)
        /\ \A n \in 1..Len(words) :
               /\ Cardinality(PlacesOf(n)) = 1
               /\ \A p \in PlacesOf(n) :
                      /\ lines[p[1]].words[p[2]] = words[n]
                      /\ IF CandidatesOf(n) = {} THEN Creator(p[1]) = n
                         ELSE p[1] = First(CandidatesOf(n))

\* the third word was within Y_TOL of both lines and joined the first
C15_Witness ==
    /\ pc = "grouped"
    /\ Len(words) = 3
    /\ Len(lines) = 2
    /\ lines[1].key = 8
    /\ lines[2].key = 0
    /\ round0(words[3].y0) = 4
    /\ CandidatesOf(3) = {1, 2}
    /\ Partition(lines) = {{1, 3}, {2}}

(***************************************************************************)
(* extract_table_d_by_coordinates, one page.  A word of the page is        *)
(* [word_no, x0, y0, text]: y0 in half units, text the word's characters,  *)
(* Hebrew letters by name.  raw_text holds the page's get_text("text").    *)
(***************************************************************************)
track_kw == <<"mem", "samekh", "lamed", "vav", "lamed">>
W_maslulei == track_kw \o <<"yod">>
W_hashkaa  == <<"he", "shin", "qof", "ayin", "he">>
W_tsuot    == <<"tav", "shin", "vav", "alef", "vav", "tav">>
skip_kw == {W_hashkaa, W_tsuot}

\* end_kws, each split into its words
end_kws ==
    << << <<"pe", "yod", "resh", "vav", "tet">>,
          <<"he", "pe", "qof", "dalet", "vav", "tav">> >>,
       << <<"pe", "resh", "tet", "yod">>, <<"samekh", "vav", "kaf", "nun-sofit">> >>,
       << <<"tav", "nun", "vav", "ayin", "vav", "tav">>,
          <<"bet", "qof", "resh", "nun-sofit">> >> >>

RECURSIVE Join(_)
\* " ".join(tokens)
Join(tokens) ==
    IF tokens = <<>> THEN <<>>
    ELSE IF Len(tokens) = 1 THEN tokens[1]
    ELSE tokens[1] \o <<" ">> \o Join(Tail(tokens))

\* tok.replace(",", ".")
CommaToDot(tok) == [i \in 1..Len(tok) |-> IF tok[i] = "," THEN "." ELSE tok[i]]

RECURSIVE RStripPercent(_)
\* s.rstrip("%")
RStripPercent(s) ==
    IF s # <<>> /\ s[Len(s)] = "%"
    THEN RStripPercent(SubSeq(s, 1, Len(s) - 1)) ELSE s

\* tok.replace(",", ".").rstrip("%")
Clean(tok) == RStripPercent(CommaToDot(tok))

\* re.match(r"^-?\d+[.,]\d+$", s)
IsNum(s) ==
    LET body == IF s # <<>> /\ Head(s) = "-" THEN Tail(s) ELSE s
    IN  \E p \in 2..(Len(body) - 1) :
            /\ body[p] \in {".", ","}
            /\ \A i \in 1..Len(body) : i # p => body[i] \in Digits

\* num_re.match(tok): r"^-?\d+[.,]\d+%?$"
num_re(tok) ==
    \/ IsNum(tok)
    \/ tok # <<>> /\ tok[Len(tok)] = "%" /\ IsNum(SubSeq(tok, 1, Len(tok) - 1))

\* s without its i-th element
Drop(s, i) == SubSeq(s, 1, i - 1) \o SubSeq(s, i + 1, Len(s))

RECURSIVE SortedByX0(_)
\* sorted(ws, key=lambda w: w[0]): ascending x0, stable
SortedByX0(ws) ==
    IF ws = <<>> THEN <<>>
    ELSE LET i == CHOOSE i \in 1..Len(ws) :
                      /\ \A j \in 1..Len(ws) : ws[i].x0 <= ws[j].x0
                      /\ \A j \in 1..(i - 1) : ws[j].x0 > ws[i].x0
         IN  <<ws[i]>> \o SortedByX0(Drop(ws, i))

RECURSIVE SortedByKey(_)
\* sorted(lines): the dict's items by ascending key (keys are distinct)
SortedByKey(ls) ==
    IF ls = <<>> THEN <<>>
    ELSE LET i == CHOOSE i \in 1..Len(ls) : \A j \in 1..Len(ls) : ls[i].key <= ls[j].key
         IN  <<ls[i]>> \o SortedByKey(Drop(ls, i))

\* [w[4] for w in sorted(line, key=lambda w: w[0])]
Tokens(line) ==
    LET ws == SortedByX0(line.words) IN [i \in 1..Len(ws) |-> ws[i].text]

RECURSIVE SplitTokens(_, _, _, _)
\* the while loop: numeric tokens to pct_tokens, a "%" of its own dropped,
\* the rest to name_tokens
SplitTokens(tokens, ti, pct_tokens, name_tokens) ==
    IF ti > Len(tokens) THEN [pct |-> pct_tokens, name |-> name_tokens]
    ELSE IF IsNum(Clean(tokens[ti]))
    THEN SplitTokens(tokens,
                     IF ti + 1 <= Len(tokens) /\ strip(tokens[ti + 1]) = <<"%">>
                     THEN ti + 2 ELSE ti + 1,
                     Append(pct_tokens, Clean(tokens[ti])), name_tokens)
    ELSE IF strip(tokens[ti]) = <<"%">>
    THEN SplitTokens(tokens, ti + 1, pct_tokens, name_tokens)
    ELSE SplitTokens(tokens, ti + 1, pct_tokens, Append(name_tokens, tokens[ti]))

\* the first token of a line that num_re or the plain pattern matches, cleaned
FirstNumeric(toks) ==
    LET hits == {i \in 1..Len(toks) : num_re(toks[i]) \/ IsNum(Clean(toks[i]))}
    IN  IF hits = {} THEN None ELSE Str(Clean(toks[First(hits)]))

RECURSIVE LookAhead(_, _, _)
\* the percentage of the first of the lines sl[ny..last] that has one
LookAhead(sl, ny, last) ==
    IF ny > last \/ ny > Len(sl) THEN None
    ELSE IF FirstNumeric(Tokens(sl[ny])) # None THEN FirstNumeric(Tokens(sl[ny]))
    ELSE LookAhead(sl, ny + 1, last)

\* " ".join(t for t in name_tokens if t.strip()).strip()
TrackName(name_tokens) ==
    strip(Join(SelectSeq(name_tokens, LAMBDA tk : strip(tk) # <<>>)))

HasSkipKw(s) == \E sk \in skip_kw : Contains(s, sk)

TrackRowOwnPercentageOnly(sl, c) ==
    LET toks == Tokens(sl[c])
        sp   == SplitTokens(toks, 1, <<>>, <<>>)
    IN  IF ~Contains(Join(toks), track_kw) \/ HasSkipKw(Join(toks)) THEN <<>>
        ELSE IF sp.pct = <<>> \/ TrackName(sp.name) = <<>> THEN <<>>
        ELSE << [track_name |-> Str(TrackName(sp.name)),
                 return_percentage |-> Str(sp.pct[1])] >>

\* one turn of the loop over sorted(lines): the rows line c adds, none or one
TrackRow(sl, c) ==
    LET toks == Tokens(sl[c])
        sp   == SplitTokens(toks, 1, <<>>, <<>>)
    IN  IF ~Contains(Join(toks), track_kw) \/ HasSkipKw(Join(toks)) THEN <<>>
        ELSE IF TrackName(sp.name) = <<>> THEN <<>>
        ELSE << [track_name |-> Str(TrackName(sp.name)),
                 return_percentage |->
                     IF sp.pct # <<>> THEN Str(sp.pct[1])
                     ELSE LookAhead(sl, c + 1, c + 4)] >>

RECURSIVE TrackRowsFrom(_, _)
TrackRowsFrom(sl, c) ==
    IF c > Len(sl) THEN <<>> ELSE TrackRow(sl, c) \o TrackRowsFrom(sl, c + 1)

\* the texts of the words whose rounded y0 is y, joined: a line of y_to_words
LineStr(ws, y) ==
    LET on == SelectSeq(ws, LAMBDA w : round0(w.y0) = y)
    IN  Join([i \in 1..Len(on) |-> on[i].text])

RoundedYs(ws) == {round0(ws[i].y0) : i \in 1..Len(ws)}

\* the lines that can start section D: both words of the header are on them
StartYs(ws) ==
    {y \in RoundedYs(ws) :
        Contains(LineStr(ws, y), W_maslulei) /\ Contains(LineStr(ws, y), W_hashkaa)}

\* the lines after the start that hold every word of an end keyword
EndYs(ws, start_y) ==
    {y \in RoundedYs(ws) :
        /\ y > start_y
        /\ \E ek \in 1..Len(end_kws) :
               \A ew \in 1..Len(end_kws[ek]) : Contains(LineStr(ws, y), end_kws[ek][ew])}

\* the fallback: the words naming a track
TrackWords(ws) ==
    {i \in 1..Len(ws) : Contains(ws[i].text, track_kw) /\ ~HasSkipKw(ws[i].text)}

\* start_y and end_y, in half units; found and bounded are "is not None"
SectionBounds(ws) ==
    IF StartYs(ws) # {}
    THEN [found |-> TRUE, start |-> 2 * First(StartYs(ws)),
          bounded |-> EndYs(ws, First(StartYs(ws))) # {},
          end |-> IF EndYs(ws, First(StartYs(ws))) = {} THEN 0
                  ELSE 2 * First(EndYs(ws, First(StartYs(ws))))]
    ELSE IF TrackWords(ws) # {}
    THEN [found |-> TRUE, start |-> ws[First(TrackWords(ws))].y0 - 10,
          bounded |-> FALSE, end |-> 0]
    ELSE [found |-> FALSE, start |-> 0, bounded |-> FALSE, end |-> 0]

\* sec_words
SecWords(ws, b) ==
    SelectSeq(ws, LAMBDA w : w.y0 >= b.start /\ (~b.bounded \/ w.y0 < b.end))

\* the page's text holds section_kw
PageHasSection(page_text) ==
    \E i \in 1..Len(page_text) : InLine(H_tracks, page_text[i])

\* the lines dict of a page, empty where the page is skipped
LinesOfPage(page_text, ws) ==
    IF ~PageHasSection(page_text) \/ ~SectionBounds(ws).found THEN <<>>
    ELSE GroupWords(SecWords(ws, SectionBounds(ws)), <<>>)

extract_table_d_by_coordinates(page_text, ws) ==
    TrackRowsFrom(SortedByKey(LinesOfPage(page_text, ws)), 1)

(***************************************************************************)
(* One page through extract_table_d_by_coordinates                         *)
(***************************************************************************)
MaxPageLines == 4

W_klali   == <<"kaf", "lamed", "lamed", "yod">>
W_menayot == <<"mem", "nun", "yod", "vav", "tav">>
W_4_25    == <<"4", ".", "2", "5", "%">>
W_0_17    == <<"0", ",", "1", "7">>
W_percent == <<"%">>

At(x, text) == [x0 |-> x, text |-> text]

\* the printed lines a page can have, each word with its x0 (right to left)
L_header    == <<At(300, W_maslulei), At(200, W_hashkaa)>>
L_end       == <<At(300, end_kws[1][1]), At(200, end_kws[1][2])>>
L_track     == <<At(300, track_kw), At(200, W_klali), At(100, W_4_25)>>
L_trackName == <<At(300, track_kw), At(200, W_menayot)>>
L_namePct   == <<At(300, W_klali), At(100, W_0_17), At(80, W_percent)>>
L_trackPct  == <<At(300, track_kw), At(100, W_4_25)>>
L_name      == <<At(300, W_menayot)>>

PageLines == {L_header, L_end, L_track, L_trackName, L_namePct, L_trackPct, L_name}

\* where the lines are printed: the top of the first and the distance between
\* two, in half units (10 apart and on whole units, or 3 apart on halves)
Layouts == {[top |-> 40, gap |-> 20], [top |-> 3, gap |-> 6]}

RECURSIVE WordsOfPage(_, _, _, _)
\* the words of the printed lines ls, from line i on, numbered from n
WordsOfPage(ls, i, n, layout) ==
    IF i > Len(ls) THEN <<>>
    ELSE [j \in 1..Len(ls[i]) |->
             [word_no |-> n + j - 1, x0 |-> ls[i][j].x0,
              y0 |-> layout.top + layout.gap * (i - 1), text |-> ls[i][j].text]]
         \o WordsOfPage(ls, i + 1, n + Len(ls[i]), layout)

PageTexts == {<<>>, <<[y |-> 1, text |-> <<H_tracks>>]>>}

InitTracks ==
    /\ pc = "table_d_by_coordinates"
    /\ \E n \in 0..MaxPageLines : \E ls \in [1..n -> PageLines] :
           \E layout \in Layouts : words = WordsOfPage(ls, 1, 1, layout)
    /\ raw_text \in PageTexts
    /\ lines = <<>>
    /\ coord_rows_d = <<>>
    /\ extracted = Idle /\ dfs = Idle /\ outcome = Idle
    /\ section_keyword = Idle /\ section = Idle
    /\ IdleNum /\ IdleShift

ExtractTableDByCoordinates ==
    /\ pc = "table_d_by_coordinates"
    /\ lines' = LinesOfPage(raw_text, words)
    /\ coord_rows_d' = extract_table_d_by_coordinates(raw_text, words)
    /\ pc' = "table_d_extracted"
    /\ UNCHANGED <<value, num, rows, fixed, extracted, dfs, outcome,
                   words, raw_text, section_keyword, section>>

NextTracks == ExtractTableDByCoordinates

SpecTracks == InitTracks /\ [][NextTracks]_vars

\* the lines of the section from top to bottom
SectionLines == SortedByKey(lines)

IsPercentage(tk) == IsNum(Clean(tk))

\* the tokens of a line that are neither a percentage nor a "%" of its own,
\* from left to right
NameTokens(line) ==
    SelectSeq(Tokens(line), LAMBDA tk : ~IsPercentage(tk) /\ tk # <<"%">>)

PercentageTokens(line) == SelectSeq(Tokens(line), IsPercentage)

IsHeaderLine(line) == HasSkipKw(Join(Tokens(line)))

HasTrackKw(line) == Contains(Join(Tokens(line)), track_kw)

\* the section is its header, if any, and a track name on two lines: the line
\* before the last carries name text and no percentage, the last line carries
\* more name text and a percentage
TwoLineTrackName ==
    /\ pc = "table_d_extracted"
    /\ Len(SectionLines) >= 2
    /\ \A c \in 1..(Len(SectionLines) - 2) : IsHeaderLine(SectionLines[c])
    /\ LET first  == SectionLines[Len(SectionLines) - 1]
           second == SectionLines[Len(SectionLines)]
       IN  /\ ~IsHeaderLine(first) /\ ~IsHeaderLine(second)
           /\ HasTrackKw(first) \/ HasTrackKw(second)
           /\ NameTokens(first) # <<>> /\ PercentageTokens(first) = <<>>
           /\ NameTokens(second) # <<>> /\ PercentageTokens(second) # <<>>

FirstLine == SectionLines[Len(SectionLines) - 1]
SecondLine == SectionLines[Len(SectionLines)]

\* the percentage of the second line, as text and parsed
SecondPercentage == Str(Clean(PercentageTokens(SecondLine)[1]))

\* C12 as the specification states it: a track name on two lines yields
\* exactly one row, whose track_name holds the name tokens of both lines and
\* whose return_percentage is the parsed percentage of the second line.
C12_TwoLinesOneRow ==
    TwoLineTrackName =>
        /\ Len(coord_rows_d) = 1
        /\ \A i \in 1..Len(NameTokens(FirstLine)) :
               Contains(coord_rows_d[1].track_name.s, NameTokens(FirstLine)[i])
        /\ \A i \in 1..Len(NameTokens(SecondLine)) :
               Contains(coord_rows_d[1].track_name.s, NameTokens(SecondLine)[i])
        /\ clean_num(coord_rows_d[1].return_percentage) = clean_num(SecondPercentage)

\* the row a line of the two yields
RowOf(line) ==
    [track_name |-> Str(Join(NameTokens(line))), return_percentage |-> SecondPercentage]

\* C12, amended: a track name on two lines yields one row for each of the two
\* lines that contains the track keyword, so one or two rows; the track_name
\* of a row is the name tokens of its own line alone, from left to right, never
\* the concatenation of both lines; the return_percentage of every such row is
\* the percentage of the second line, which table D parses (4.25% as 4.25).
C12_OneRowPerKeywordLine ==
    TwoLineTrackName =>
        /\ coord_rows_d =
               (IF HasTrackKw(FirstLine) THEN <<RowOf(FirstLine)>> ELSE <<>>)
               \o (IF HasTrackKw(SecondLine) THEN <<RowOf(SecondLine)>> ELSE <<>>)
        /\ \A i \in 1..Len(coord_rows_d) :
               build_table_d(coord_rows_d)[i].return_percentage
                   = clean_num(SecondPercentage)

\* a name line without the keyword above a keyword line with 4.25%: the one
\* row has the second line's name alone and 4.25
C12_Witness ==
    /\ TwoLineTrackName
    /\ NameTokens(FirstLine) = <<W_menayot>>
    /\ ~HasTrackKw(FirstLine)
    /\ Tokens(SecondLine) = <<W_4_25, track_kw>>
    /\ coord_rows_d = << [track_name |-> Str(track_kw),
                          return_percentage |-> Str(<<"4", ".", "2", "5">>)] >>
    /\ build_table_d(coord_rows_d)[1].return_percentage = Float(425, 2)

====
